---- MODULE Spec2Model ----
(***************************************************************************)
(* Movie catalog: the two storage backends (StorageJson, StorageCsv) over  *)
(* their file codecs (JSONFileHandler, CSVFileHandler), the add command of *)
(* MovieApp, the title resolver UserInputHandler.get_best_match, and the   *)
(* file handlers with their factory FileHandlerFactory.                    *)
(*                                                                         *)
(* Text is a sequence of one-character strings.  A Python value is a       *)
(* record [t, v]: t is the Python type, v the text that prints the value.  *)
(* A dict is a function from key names to Python values.                   *)
(***************************************************************************)
EXTENDS Integers, Sequences, FiniteSets, TLC

VARIABLES
    jsonFile,     \* content of the file behind StorageJson
    csvFile,      \* content of the file behind StorageCsv
    files,        \* the files behind the TXT, binary and HTML handlers
    origin,       \* "empty" when the run started from an empty catalog, else "legacy"
    last,         \* the last storage operation: arguments, files before, reports
    app,          \* MovieApp._command_add_movie: position, existing_titles, storage file
    res           \* UserInputHandler.get_best_match: position, candidates, result

vars == <<jsonFile, csvFile, files, origin, last, app, res>>

-----------------------------------------------------------------------------
(* Bounds of the model *)

\* add_movie is not offered once a catalog holds this many entries
MaxMovies == 2
\* titles accepted within the runs of the add command
MaxAppMovies == 3
\* responses given to one selection prompt before the model stops answering
MaxResponses == 2
\* known titles handed to one call of get_best_match
MaxOptions == 3

-----------------------------------------------------------------------------
(* Text *)

UpperToLower == [U |-> "u", P |-> "p", I |-> "i", T |-> "t", S |-> "s"]

\* str.lower() on one character
LowerChar(c) == IF c \in DOMAIN UpperToLower THEN UpperToLower[c] ELSE c

\* str.lower()
Lower(s) == [i \in 1..Len(s) |-> LowerChar(s[i])]

IsSpace(c) == c = " "

RECURSIVE LStrip(_)
LStrip(s) == IF s # <<>> /\ IsSpace(Head(s)) THEN LStrip(Tail(s)) ELSE s

RECURSIVE RStrip(_)
RStrip(s) ==
    IF s # <<>> /\ IsSpace(s[Len(s)]) THEN RStrip(SubSeq(s, 1, Len(s) - 1)) ELSE s

\* str.strip()
Strip(s) == RStrip(LStrip(s))

\* `sub in s` for two strings
Contains(s, sub) ==
    \E i \in 0..(Len(s) - Len(sub)) : SubSeq(s, i + 1, i + Len(sub)) = sub

-----------------------------------------------------------------------------
(* Python values *)

PyNone == [t |-> "NoneType", v |-> <<>>]
PyStr(s) == [t |-> "str", v |-> s]
PyInt(digits) == [t |-> "int", v |-> digits]
PyFloat(text) == [t |-> "float", v |-> text]

\* bool(x): None, "", 0 and 0.0 are false
Truthy(x) ==
    CASE x.t = "NoneType" -> FALSE
      [] x.t = "str" -> x.v # <<>>
      [] OTHER -> \E i \in 1..Len(x.v) : x.v[i] \notin {"0", ".", "-"}

\* `x or d`
PyOr(x, d) == IF Truthy(x) THEN x ELSE d

-----------------------------------------------------------------------------
(* JSON codec: JSONFileHandler *)

\* what json.dump writes for one value
JsonEncode(x) ==
    CASE x.t = "NoneType" -> [j |-> "null", v |-> <<>>]
      [] x.t = "str" -> [j |-> "string", v |-> x.v]
      [] OTHER -> [j |-> "number", v |-> x.v]

\* what json.load builds from one value: a number with a fraction is a float
JsonDecode(y) ==
    CASE y.j = "null" -> PyNone
      [] y.j = "string" -> PyStr(y.v)
      [] OTHER -> IF \E i \in 1..Len(y.v) : y.v[i] = "." THEN PyFloat(y.v) ELSE PyInt(y.v)

JsonEncodeDict(d) == [k \in DOMAIN d |-> JsonEncode(d[k])]
JsonDecodeDict(o) == [k \in DOMAIN o |-> JsonDecode(o[k])]

\* a file that does not exist
NoFile == [exists |-> FALSE, valid |-> FALSE, hasMovies |-> FALSE, movies |-> <<>>]

\* the dict {} 
EmptyDict == [hasMovies |-> FALSE, movies |-> <<>>]

\* JSONFileHandler.load_data: {} for a missing or an unparseable file
JsonLoadData(file) ==
    IF ~file.exists THEN EmptyDict
    ELSE IF ~file.valid THEN EmptyDict
    ELSE [hasMovies |-> file.hasMovies,
          movies |-> [i \in 1..Len(file.movies) |-> JsonDecodeDict(file.movies[i])]]

\* a save_data that leaves a file it cannot parse as it is
JsonSaveKeepsUnreadable(file, data) ==
    IF file.exists /\ ~file.valid THEN file
    ELSE [exists |-> TRUE, valid |-> TRUE, hasMovies |-> data.hasMovies,
          movies |-> [i \in 1..Len(data.movies) |-> JsonEncodeDict(data.movies[i])]]

\* JSONFileHandler.save_data: the file is opened for writing and replaced
JsonSaveData(file, data) ==
    [exists |-> TRUE, valid |-> TRUE, hasMovies |-> data.hasMovies,
     movies |-> [i \in 1..Len(data.movies) |-> JsonEncodeDict(data.movies[i])]]

-----------------------------------------------------------------------------
(* CSV codec: CSVFileHandler *)

\* the order in which the backends create the keys of an entry
KeyOrder == <<"title", "year", "rating", "poster", "media_type", "country", "note">>

\* position of a column in a header (0: no such column)
ColumnOf(header, k) ==
    IF \E i \in 1..Len(header) : header[i] = k
    THEN CHOOSE i \in 1..Len(header) : header[i] = k /\ \A j \in 1..(i - 1) : header[j] # k
    ELSE 0

\* a file that does not exist
NoCsvFile == [exists |-> FALSE, header |-> <<>>, rows |-> <<>>]

\* csv.DictReader: one dict per row, keyed by the header; a short row is
\* filled with None
CsvRowToDict(header, row) ==
    [k \in {header[i] : i \in 1..Len(header)} |->
        IF ColumnOf(header, k) <= Len(row) THEN PyStr(row[ColumnOf(header, k)]) ELSE PyNone]

\* CSVFileHandler.load_data: [] for a missing file and for a file with no header
CsvLoadData(file) ==
    IF ~file.exists THEN <<>>
    ELSE IF file.header = <<>> THEN <<>>
    ELSE [i \in 1..Len(file.rows) |-> CsvRowToDict(file.header, file.rows[i])]

\* what csv.writer writes for one value: None is the empty field, the rest str(x)
CsvCell(x) == IF x.t = "NoneType" THEN <<>> ELSE x.v

\* csv.DictWriter: the header is the keys of the first dict, a key a row lacks
\* is written as the empty field
CsvDictToRow(header, d) ==
    [i \in 1..Len(header) |-> IF header[i] \in DOMAIN d THEN CsvCell(d[header[i]]) ELSE <<>>]

\* CSVFileHandler.save_data: returns before opening the file when data is empty
CsvWrites(data) == data # <<>>

\* a save_data that writes an empty file for empty data
CsvSaveTruncates(file, data) ==
    IF data = <<>> THEN [exists |-> TRUE, header |-> <<>>, rows |-> <<>>]
    ELSE LET header == SelectSeq(KeyOrder, LAMBDA k : k \in DOMAIN data[1])
         IN [exists |-> TRUE, header |-> header,
             rows |-> [i \in 1..Len(data) |-> CsvDictToRow(header, data[i])]]

CsvSaveData(file, data) ==
    IF ~CsvWrites(data) THEN file
    ELSE LET header == SelectSeq(KeyOrder, LAMBDA k : k \in DOMAIN data[1])
         IN [exists |-> TRUE, header |-> header,
             rows |-> [i \in 1..Len(data) |-> CsvDictToRow(header, data[i])]]

-----------------------------------------------------------------------------
(* Text files: what open(path, "r", encoding="utf-8") hands to a reader *)

\* universal newlines: "\r\n" and "\r" are read as "\n"
RECURSIVE ReadText(_)
ReadText(text) ==
    IF text = <<>> THEN <<>>
    ELSE IF Head(text) = "\r"
         THEN <<"\n">> \o ReadText(IF Len(text) > 1 /\ text[2] = "\n"
                                     THEN Tail(Tail(text)) ELSE Tail(text))
         ELSE <<Head(text)>> \o ReadText(Tail(text))

\* the lines a file object iterates over, without their terminators
RECURSIVE SplitLines(_, _)
SplitLines(text, line) ==
    IF text = <<>> THEN (IF line = <<>> THEN <<>> ELSE <<line>>)
    ELSE IF Head(text) = "\n" THEN <<line>> \o SplitLines(Tail(text), <<>>)
    ELSE SplitLines(Tail(text), Append(line, Head(text)))

\* "\n".join(data)
RECURSIVE Join(_)
Join(data) ==
    IF data = <<>> THEN <<>>
    ELSE IF Len(data) = 1 THEN data[1]
    ELSE data[1] \o <<"\n">> \o Join(Tail(data))

\* a file that does not exist, for the TXT, binary and HTML handlers
NoTextFile == [exists |-> FALSE, content |-> <<>>]

\* no file of the TXT, binary and HTML handlers exists; undecodable is the
\* set of handlers whose file holds bytes that are not UTF-8
NoFiles == [txt |-> NoTextFile, bin |-> NoTextFile, html |-> NoTextFile, undecodable |-> {}]

\* Python values of the handlers: bytes (each byte as two hex digits), list, dict
PyBytes(b) == [t |-> "bytes", v |-> b]
PyList(l) == [t |-> "list", v |-> l]
PyDict(d) == [t |-> "dict", v |-> d]

\* TXTFileHandler.load_data: the stripped lines that are not empty
TxtLoadData(file) ==
    IF ~file.exists THEN <<>>
    ELSE LET lines == SplitLines(ReadText(file.content), <<>>)
             stripped == [i \in 1..Len(lines) |-> Strip(lines[i])]
         IN SelectSeq(stripped, LAMBDA line : line # <<>>)

\* TXTFileHandler.save_data: the lines joined, and a final newline
TxtSaveData(file, data) == [exists |-> TRUE, content |-> Join(data) \o <<"\n">>]

\* BinaryFileHandler.load_data
BinaryLoadData(file) == IF ~file.exists THEN <<>> ELSE file.content

\* HTMLFileHandler.load_data
HtmlLoadData(file) == IF ~file.exists THEN <<>> ELSE ReadText(file.content)

\* a save_data without the isinstance test
AcceptsAnyType(handler, data) == TRUE

\* the isinstance tests of BinaryFileHandler.save_data and HTMLFileHandler.save_data
AcceptsType(handler, data) ==
    CASE handler = "BinaryFileHandler" -> data.t = "bytes"
      [] handler = "HTMLFileHandler" -> data.t = "str"
      [] OTHER -> TRUE

-----------------------------------------------------------------------------
(* Catalog stores: StorageJson and StorageCsv.  A mutating operation yields  *)
(* [file, out, wrote]: the file after it, what it printed, whether it opened *)
(* the file for writing.                                                     *)

\* a filter that stops at the first match: only one entry is dropped
RECURSIVE DropFirstMatch(_, _)
DropFirstMatch(movies, title) ==
    IF movies = <<>> THEN <<>>
    ELSE IF Lower(Head(movies)["title"].v) # Lower(title.v)
         THEN <<Head(movies)>> \o DropFirstMatch(Tail(movies), title)
         ELSE Tail(movies)

\* [movie for movie in movies if movie["title"].lower() != title.lower()]
RECURSIVE SelectMovies(_, _)
SelectMovies(movies, title) ==
    IF movies = <<>> THEN <<>>
    ELSE IF Lower(Head(movies)["title"].v) # Lower(title.v)
         THEN <<Head(movies)>> \o SelectMovies(Tail(movies), title)
         ELSE SelectMovies(Tail(movies), title)

\* index of the first movie whose title matches (0: none): the for loop of update_movie
FirstMatch(movies, title) ==
    IF \E i \in 1..Len(movies) : Lower(movies[i]["title"].v) = Lower(title.v)
    THEN CHOOSE i \in 1..Len(movies) :
            /\ Lower(movies[i]["title"].v) = Lower(title.v)
            /\ \A j \in 1..(i - 1) : Lower(movies[j]["title"].v) # Lower(title.v)
    ELSE 0

\* movie["note"] = note; if note is not None: movie["note"] = note if note else None
NoteToStore(note) ==
    IF note.t # "NoneType" THEN (IF Truthy(note) THEN note ELSE PyNone) ELSE note

SetNote(movie, note) ==
    [k \in DOMAIN movie \cup {"note"} |-> IF k = "note" THEN NoteToStore(note) ELSE movie[k]]

\* StorageJson.list_movies
JsonListMovies(file) ==
    LET data == JsonLoadData(file) IN IF data.hasMovies THEN data.movies ELSE <<>>

\* poster = poster.strip() if poster else None; then "poster": poster or ""
JsonPoster(poster) ==
    LET stripped == IF Truthy(poster) THEN PyStr(Strip(poster.v)) ELSE PyNone
    IN PyOr(stripped, PyStr(<<>>))

\* the dict StorageJson.add_movie appends
JsonNewMovie(a) ==
    [title |-> a.title, year |-> a.year, rating |-> a.rating,
     poster |-> JsonPoster(a.poster), media_type |-> a.media_type,
     country |-> PyOr(a.country, PyNone), note |-> PyOr(a.note, PyNone)]

\* StorageJson.add_movie
JsonAddMovie(file, a) ==
    LET movies == Append(JsonListMovies(file), JsonNewMovie(a))
    IN [file |-> JsonSaveData(file, [hasMovies |-> TRUE, movies |-> movies]),
        out |-> {}, wrote |-> TRUE]

\* StorageJson.delete_movie
JsonDeleteMovie(file, title) ==
    LET movies == JsonListMovies(file)
        updated_movies == SelectMovies(movies, title)
    IN [file |-> JsonSaveData(file, [hasMovies |-> TRUE, movies |-> updated_movies]),
        out |-> IF Len(updated_movies) = Len(movies) THEN {"not found"} ELSE {},
        wrote |-> TRUE]

\* StorageJson.update_movie: falls out of the loop without a report
JsonUpdateMovie(file, title, note) ==
    LET movies == JsonListMovies(file)
        i == FirstMatch(movies, title)
    IN IF i = 0 THEN [file |-> file, out |-> {}, wrote |-> FALSE]
       ELSE [file |-> JsonSaveData(file, [hasMovies |-> TRUE,
                        movies |-> [movies EXCEPT ![i] = SetNote(movies[i], note)]]),
             out |-> {}, wrote |-> TRUE]

\* movie.get(k, default) of StorageCsv.list_movies
CsvGet(movie, k) ==
    IF k \in DOMAIN movie THEN movie[k]
    ELSE IF k = "rating" THEN PyFloat(<<"0", ".", "0">>) ELSE PyNone

\* StorageCsv.list_movies
CsvListMovies(file) ==
    LET movies == CsvLoadData(file)
    IN [i \in 1..Len(movies) |->
          [k \in {"title", "year", "rating", "poster", "media_type", "note"} |->
              CsvGet(movies[i], k)]]

\* the dict StorageCsv.add_movie appends
CsvNewMovie(a) ==
    [title |-> a.title, year |-> a.year, rating |-> a.rating,
     poster |-> PyOr(a.poster, PyStr(<<>>)), media_type |-> a.media_type,
     note |-> PyOr(a.note, PyNone)]

\* StorageCsv.add_movie
CsvAddMovie(file, a) ==
    LET movies == Append(CsvListMovies(file), CsvNewMovie(a))
    IN [file |-> CsvSaveData(file, movies), out |-> {}, wrote |-> CsvWrites(movies)]

\* StorageCsv.delete_movie
CsvDeleteMovie(file, title) ==
    LET movies == CsvListMovies(file)
        updated_movies == SelectMovies(movies, title)
    IN [file |-> CsvSaveData(file, updated_movies),
        out |-> IF Len(updated_movies) = Len(movies) THEN {"not found"} ELSE {},
        wrote |-> CsvWrites(updated_movies)]

\* StorageCsv.update_movie
CsvUpdateMovie(file, title, note) ==
    LET movies == CsvListMovies(file)
        i == FirstMatch(movies, title)
        updated == [movies EXCEPT ![i] = SetNote(movies[i], note)]
    IN IF i = 0 THEN [file |-> file, out |-> {"not found"}, wrote |-> FALSE]
       ELSE [file |-> CsvSaveData(file, updated), out |-> {}, wrote |-> CsvWrites(updated)]

-----------------------------------------------------------------------------
(* Inputs *)

TitleUp == <<"U", "p">>
TitleUpLower == <<"u", "p">>
TitleIt == <<"I", "t">>
Titles == {TitleUp, TitleUpLower, TitleIt}

Movie == PyStr(<<"m", "o", "v", "i", "e">>)

\* storage.add_movie("Test Movie", 1999, 9.9): the defaults of the signature
DirectArgs(title) ==
    [title |-> PyStr(title), year |-> PyInt(<<"1", "9", "9", "9">>),
     rating |-> PyFloat(<<"9", ".", "9">>), poster |-> PyNone, media_type |-> Movie,
     country |-> PyNone, note |-> PyStr(<<>>)]

\* the call of the add command: every attribute is text of the provider's answer
ProviderArgs(title, poster) ==
    [title |-> PyStr(title), year |-> PyStr(<<"2", "0", "2", "1">>),
     rating |-> PyStr(<<"8", ".", "0">>), poster |-> PyStr(poster), media_type |-> Movie,
     country |-> PyStr(<<"U", "S">>), note |-> PyStr(<<>>)]

\* a call that gives a note
NotedArgs(title, poster) ==
    [ProviderArgs(title, poster) EXCEPT !.note = PyStr(<<"n">>)]

AddArgs ==
    {DirectArgs(TitleUp), ProviderArgs(TitleUpLower, <<>>),
     ProviderArgs(TitleIt, <<" ">>), NotedArgs(TitleIt, <<"u", " ">>)}

\* the calls of update_movie: title and note
UpdateArgs ==
    {<<TitleUp, PyStr(<<>>)>>, <<TitleUpLower, PyStr(<<"n">>)>>,
     <<TitleIt, PyNone>>, <<TitleIt, PyStr(<<>>)>>, <<TitleIt, PyStr(<<"n">>)>>}

\* an entry as the earlier revision of the backends wrote it: no country, no note
LegacyJsonMovie ==
    [title |-> PyStr(TitleIt), year |-> PyInt(<<"1", "9", "9", "9">>),
     rating |-> PyFloat(<<"9", ".", "9">>), poster |-> PyStr(<<>>), media_type |-> Movie]

LegacyHeader == <<"title", "year", "rating", "poster", "media_type">>

\* the files a run can start from: none, unreadable or empty ones, a catalog
\* with no entry, a catalog of the earlier revision
Origins ==
    {[json |-> NoFile, csv |-> NoCsvFile],
     [json |-> [exists |-> TRUE, valid |-> FALSE, hasMovies |-> FALSE, movies |-> <<>>],
      csv |-> [exists |-> TRUE, header |-> <<>>, rows |-> <<>>]],
     [json |-> [exists |-> TRUE, valid |-> TRUE, hasMovies |-> FALSE, movies |-> <<>>],
      csv |-> [exists |-> TRUE, header |-> LegacyHeader, rows |-> <<>>]],
     [json |-> JsonSaveData(NoFile, [hasMovies |-> TRUE, movies |-> <<LegacyJsonMovie>>]),
      csv |-> [exists |-> TRUE, header |-> LegacyHeader,
               rows |-> <<CsvDictToRow(LegacyHeader, LegacyJsonMovie)>>]],
     [json |-> JsonSaveData(NoFile, [hasMovies |-> TRUE,
                  movies |-> <<LegacyJsonMovie, [LegacyJsonMovie EXCEPT !.title = PyStr(TitleUp)]>>]),
      csv |-> [exists |-> TRUE, header |-> LegacyHeader,
               rows |-> <<CsvDictToRow(LegacyHeader, LegacyJsonMovie),
                          CsvDictToRow(LegacyHeader,
                                       [LegacyJsonMovie EXCEPT !.title = PyStr(TitleUp)])>>]]}
-----------------------------------------------------------------------------
(* The catalog stores driven directly, both backends with the same calls *)

NoOp ==
    [op |-> "none", a |-> DirectArgs(<<>>), note |-> PyNone,
     jsonPrev |-> NoFile, csvPrev |-> NoCsvFile,
     jsonOut |-> {}, csvOut |-> {}, jsonWrote |-> FALSE, csvWrote |-> FALSE]

AppIdle == [pc |-> "menu", backend |-> "json", existing_titles |-> {}]
ResIdle ==
    [pc |-> "idle", user_input |-> <<>>, options |-> <<>>, step |-> "none",
     candidates |-> <<>>, result |-> PyNone, out |-> {}, prompts |-> 0,
     line |-> <<>>]

StoreInit ==
    /\ \E o \in Origins :
          /\ jsonFile = o.json
          /\ csvFile = o.csv
          /\ origin = IF JsonListMovies(o.json) = <<>> /\ CsvListMovies(o.csv) = <<>>
                      THEN "empty" ELSE "legacy"
    /\ last = NoOp
    /\ app = AppIdle
    /\ res = ResIdle
    /\ files = NoFiles

Record(op, a, note, j, c) ==
    [op |-> op, a |-> a, note |-> note, jsonPrev |-> jsonFile, csvPrev |-> csvFile,
     jsonOut |-> j.out, csvOut |-> c.out, jsonWrote |-> j.wrote, csvWrote |-> c.wrote]

StoreAdd(a) ==
    /\ Len(JsonListMovies(jsonFile)) < MaxMovies
    /\ Len(CsvListMovies(csvFile)) < MaxMovies
    /\ LET j == JsonAddMovie(jsonFile, a)
           c == CsvAddMovie(csvFile, a)
       IN /\ jsonFile' = j.file
          /\ csvFile' = c.file
          /\ last' = Record("add", a, PyNone, j, c)
    /\ UNCHANGED <<files, origin, app, res>>

StoreDelete(title) ==
    /\ LET j == JsonDeleteMovie(jsonFile, PyStr(title))
           c == CsvDeleteMovie(csvFile, PyStr(title))
       IN /\ jsonFile' = j.file
          /\ csvFile' = c.file
          /\ last' = Record("delete", DirectArgs(title), PyNone, j, c)
    /\ UNCHANGED <<files, origin, app, res>>

StoreUpdate(title, note) ==
    /\ LET j == JsonUpdateMovie(jsonFile, PyStr(title), note)
           c == CsvUpdateMovie(csvFile, PyStr(title), note)
       IN /\ jsonFile' = j.file
          /\ csvFile' = c.file
          /\ last' = Record("update", DirectArgs(title), note, j, c)
    /\ UNCHANGED <<files, origin, app, res>>

StoreNext ==
    \/ \E a \in AddArgs : StoreAdd(a)
    \/ \E t \in Titles : StoreDelete(t)
    \/ \E u \in UpdateArgs : StoreUpdate(u[1], u[2])

StoreSpec == StoreInit /\ [][StoreNext]_vars

-----------------------------------------------------------------------------
(* Properties of the catalog stores *)

JsonBefore == JsonListMovies(last.jsonPrev)
JsonNow == JsonListMovies(jsonFile)
CsvBefore == CsvListMovies(last.csvPrev)
CsvNow == CsvListMovies(csvFile)

\* the title of the entry equals t case-insensitively
SameTitle(movie, t) == Lower(movie["title"].v) = Lower(t.v)

HasTitle(movies, t) == \E i \in 1..Len(movies) : SameTitle(movies[i], t)

TitlesOf(movies) == [i \in 1..Len(movies) |-> movies[i]["title"]]

\* positions of the entries whose title does not equal t
Keepers(movies, t) == {i \in 1..Len(movies) : ~SameTitle(movies[i], t)}

\* now holds the entries of before at the positions keep, in their order
IsRestriction(now, before, keep) ==
    /\ Len(now) = Cardinality(keep)
    /\ \A k \in 1..Len(now) :
          now[k] = before[CHOOSE i \in keep : Cardinality({j \in keep : j <= i}) = k]

\* C2: once delete_movie(t) has returned, list_movies() of either backend
\* holds no entry whose title equals t case-insensitively.
C2_DeleteRemovesTitle ==
    last.op = "delete" =>
        /\ ~HasTitle(JsonNow, last.a.title)
        /\ ~HasTitle(CsvNow, last.a.title)

\* C3: started from an empty catalog and given the same calls, the two
\* backends list the same sequence of titles.
C3_BackendsListSameTitles ==
    origin = "empty" => TitlesOf(JsonNow) = TitlesOf(CsvNow)

C5_DeleteIdempotent ==
    last.op = "delete" =>
        /\ JsonListMovies(JsonDeleteMovie(jsonFile, last.a.title).file) = JsonNow
        /\ CsvListMovies(CsvDeleteMovie(csvFile, last.a.title).file) = CsvNow
        /\ ~HasTitle(JsonBefore, last.a.title) =>
              "not found" \in last.jsonOut /\ JsonNow = JsonBefore
        /\ ~HasTitle(CsvBefore, last.a.title) =>
              "not found" \in last.csvOut /\ CsvNow = CsvBefore

\* the poster argument is absent, empty or whitespace only
BlankPoster(poster) == poster.t = "NoneType" \/ Strip(poster.v) = <<>>

\* the entry carries the attributes of the call, its poster absent for a blank one
MatchesAdded(movie, a) ==
    /\ movie["title"] = a.title
    /\ movie["year"].v = a.year.v
    /\ movie["rating"].v = a.rating.v
    /\ movie["media_type"] = a.media_type
    /\ BlankPoster(a.poster) => movie["poster"] = PyNone

\* C6: after add_movie, list_movies() holds an entry with the attributes
\* added, its poster None when the poster given was empty or whitespace only.
C6_AddThenList ==
    last.op = "add" =>
        /\ \E i \in 1..Len(JsonNow) : MatchesAdded(JsonNow[i], last.a)
        /\ \E i \in 1..Len(CsvNow) : MatchesAdded(CsvNow[i], last.a)

\* C7: after update_movie(t, "") on a catalog holding t, the note of the
\* entry is None in list_movies(), on both backends.
C7_EmptyNoteIsAbsent ==
    (last.op = "update" /\ last.note = PyStr(<<>>)) =>
        /\ HasTitle(JsonBefore, last.a.title) =>
              JsonNow[FirstMatch(JsonNow, last.a.title)]["note"] = PyNone
        /\ HasTitle(CsvBefore, last.a.title) =>
              CsvNow[FirstMatch(CsvNow, last.a.title)]["note"] = PyNone

\* C8: update_movie of a title with no match reports "not found" and writes
\* nothing, on both backends.
C8_UpdateMissingTitle ==
    last.op = "update" =>
        /\ ~HasTitle(JsonBefore, last.a.title) =>
              /\ "not found" \in last.jsonOut
              /\ ~last.jsonWrote /\ jsonFile = last.jsonPrev
        /\ ~HasTitle(CsvBefore, last.a.title) =>
              /\ "not found" \in last.csvOut
              /\ ~last.csvWrote /\ csvFile = last.csvPrev

\* the fields of the canonical entry
EntryKeys == {KeyOrder[i] : i \in 1..Len(KeyOrder)}

\* C9: every entry list_movies() returns carries every field of the
\* canonical entry as a key.
C9_CanonicalKeys ==
    /\ \A i \in 1..Len(JsonNow) : DOMAIN JsonNow[i] = EntryKeys
    /\ \A i \in 1..Len(CsvNow) : DOMAIN CsvNow[i] = EntryKeys

\* the entry at position i differs from the one before in its note at most
OnlyNoteChanged(now, before, i) ==
    /\ DOMAIN now[i] \ {"note"} = DOMAIN before[i] \ {"note"}
    /\ \A k \in DOMAIN before[i] \ {"note"} : now[i][k] = before[i][k]

\* now is before but for the note of the first entry whose title equals t
UpdatedInPlace(now, before, t) ==
    /\ Len(now) = Len(before)
    /\ \A i \in 1..Len(before) :
          IF i = FirstMatch(before, t)
          THEN OnlyNoteChanged(now, before, i)
          ELSE now[i] = before[i]

\* C24: update_movie(t, note) changes only the note of the first entry whose
\* title equals t case-insensitively: the other fields of that entry, every
\* other entry (a later one with an equal title included), the number of the
\* entries and their order are as list_movies() gave them before the call, on
\* both backends.
C24_UpdateChangesOnlyNote ==
    last.op = "update" =>
        /\ UpdatedInPlace(JsonNow, JsonBefore, last.a.title)
        /\ UpdatedInPlace(CsvNow, CsvBefore, last.a.title)

\* C25: after add_movie, list_movies() is what it was before the call, every
\* earlier entry unchanged in all its fields and in the same order, followed
\* by exactly one new entry, on both backends and for every file that
\* list_movies() can read.
C25_AddAppends ==
    last.op = "add" =>
        /\ Len(JsonNow) = Len(JsonBefore) + 1
        /\ SubSeq(JsonNow, 1, Len(JsonBefore)) = JsonBefore
        /\ Len(CsvNow) = Len(CsvBefore) + 1
        /\ SubSeq(CsvNow, 1, Len(CsvBefore)) = CsvBefore

\* the JSON file the call found exists and cannot be parsed
JsonWasMalformed == last.jsonPrev.exists /\ ~last.jsonPrev.valid

\* C30: when the JSON file exists and is malformed, so that load_data gives
\* the empty mapping, add_movie and delete_movie complete and replace the
\* whole file with {"movies": [...]} built from the empty catalog: the new
\* entry alone after add_movie, no entry after delete_movie; the content that
\* could not be read is not kept.
C30_MalformedFileReplaced ==
    (last.op \in {"add", "delete"} /\ JsonWasMalformed) =>
        /\ last.jsonWrote
        /\ jsonFile.exists /\ jsonFile.valid /\ jsonFile.hasMovies
        /\ jsonFile # last.jsonPrev
        /\ JsonNow = IF last.op = "add" THEN <<JsonNewMovie(last.a)>> ELSE <<>>
        /\ last.op = "delete" => "not found" \in last.jsonOut

\* add_movie found a malformed JSON file and left a catalog of one entry
C30_Witness ==
    /\ last.op = "add"
    /\ JsonWasMalformed
    /\ jsonFile.valid
    /\ Len(JsonNow) = 1

-----------------------------------------------------------------------------
(* MovieApp: the add command over the storage main() selected *)

\* UserInputHandler.get_non_empty_input: the stripped line, None when it is empty
GetNonEmptyInput(line) ==
    IF Strip(line) = <<>> THEN PyNone ELSE PyStr(Strip(line))

\* a confirm_action that takes every response but a negative one for a yes
ConfirmAnythingButNo(response) ==
    CASE response = "empty" -> "no"
      [] response = "negative" -> "no"
      [] OTHER -> "yes"

\* UserInputHandler.confirm_action on one response: TRUE, FALSE, or "again"
\* when the response is none of the accepted ones and the prompt is repeated
ConfirmAction(response) ==
    CASE response = "empty" -> "no"
      [] response = "positive" -> "yes"
      [] response = "negative" -> "no"
      [] OTHER -> "again"

Responses == {"empty", "positive", "negative", "invalid"}

\* the lines typed at the title prompt
TitleLines == {<<>>, <<" ">>, TitleUp, TitleUpLower, TitleIt, <<"u">>, <<"u", "p", " ">>}

\* the titles the metadata provider knows
ProviderTitles == {TitleUp, TitleIt}

\* what the request for a title can end in: a failure of the request, an
\* answer with an Error field, or the data of a title that matches the query
ProviderAnswers(user_title) ==
    {[kind |-> k, title |-> <<>>] :
        k \in {"ConnectionError", "Timeout", "HTTPError", "Error"}}
    \cup {[kind |-> "found", title |-> t] :
            t \in {p \in ProviderTitles : Contains(Lower(p), Lower(user_title))}}

\* self._storage.list_movies()
AppListMovies ==
    IF app.backend = "json" THEN JsonListMovies(jsonFile) ELSE CsvListMovies(csvFile)

\* {movie["title"].lower() for movie in existing_movies}
ExistingTitles(movies) == {Lower(movies[i]["title"].v) : i \in 1..Len(movies)}

\* user_title.lower() in existing_titles
IsDuplicate(user_title, existing_titles) == Lower(user_title) \in existing_titles

\* self._storage.add_movie(...)
AppStorageAdd(a) ==
    IF app.backend = "json"
    THEN LET j == JsonAddMovie(jsonFile, a)
         IN /\ jsonFile' = j.file
            /\ csvFile' = csvFile
            /\ last' = [NoOp EXCEPT !.op = "add", !.a = a, !.jsonPrev = jsonFile,
                                    !.csvPrev = csvFile, !.jsonWrote = j.wrote]
    ELSE LET c == CsvAddMovie(csvFile, a)
         IN /\ csvFile' = c.file
            /\ jsonFile' = jsonFile
            /\ last' = [NoOp EXCEPT !.op = "add", !.a = a, !.jsonPrev = jsonFile,
                                    !.csvPrev = csvFile, !.csvWrote = c.wrote]

AppInit ==
    /\ \E o \in Origins, b \in {"json", "csv"} :
          /\ jsonFile = IF b = "json" THEN o.json ELSE NoFile
          /\ csvFile = IF b = "csv" THEN o.csv ELSE NoCsvFile
          /\ origin = IF JsonListMovies(o.json) = <<>> THEN "empty" ELSE "legacy"
          /\ app = [AppIdle EXCEPT !.backend = b]
    /\ last = NoOp
    /\ res = ResIdle
    /\ files = NoFiles

\* menu item 2 chosen: the titles of the catalog are read once, before the loop
AddStart ==
    /\ app.pc = "menu"
    /\ app' = [app EXCEPT !.pc = "add_title",
                          !.existing_titles = ExistingTitles(AppListMovies)]
    /\ last' = NoOp
    /\ UNCHANGED <<jsonFile, csvFile, files, origin, res>>

\* one round of the loop up to its next prompt: the title is read, checked
\* against existing_titles, requested from the provider and stored
AddTitle(line, answer) ==
    /\ app.pc = "add_title"
    /\ LET user_title == GetNonEmptyInput(line)
       IN IF ~Truthy(user_title)
          THEN /\ app' = [app EXCEPT !.pc = "menu"]
               /\ UNCHANGED <<jsonFile, csvFile, last>>
          ELSE IF IsDuplicate(user_title.v, app.existing_titles)
          THEN /\ app' = [app EXCEPT !.pc = "add_confirm"]
               /\ UNCHANGED <<jsonFile, csvFile, last>>
          ELSE /\ answer \in ProviderAnswers(user_title.v)
               /\ CASE answer.kind = "found" ->
                         /\ Len(AppListMovies) < MaxAppMovies
                         /\ AppStorageAdd(ProviderArgs(answer.title, <<"u">>))
                         /\ app' = [app EXCEPT !.pc = "add_confirm"]
                    [] answer.kind = "Error" ->
                         /\ app' = [app EXCEPT !.pc = "add_confirm"]
                         /\ UNCHANGED <<jsonFile, csvFile, last>>
                    [] OTHER ->
                         /\ app' = app
                         /\ last' = [NoOp EXCEPT !.op = answer.kind, !.jsonPrev = jsonFile,
                                                 !.csvPrev = csvFile]
                         /\ UNCHANGED <<jsonFile, csvFile>>
    /\ UNCHANGED <<files, origin, res>>

\* "Would you like to add a different title?"
AddConfirm(response) ==
    /\ app.pc = "add_confirm"
    /\ app' = [app EXCEPT !.pc = CASE ConfirmAction(response) = "yes" -> "add_title"
                                   [] ConfirmAction(response) = "no" -> "menu"
                                   [] OTHER -> "add_confirm"]
    /\ UNCHANGED <<jsonFile, csvFile, files, origin, last, res>>

AppNext ==
    \/ AddStart
    \/ \E line \in TitleLines :
          \E answer \in ProviderAnswers(Strip(line)) \cup {[kind |-> "none", title |-> <<>>]} :
              AddTitle(line, answer)
    \/ \E r \in Responses : AddConfirm(r)

AppSpec == AppInit /\ [][AppNext]_vars

\* C1: the catalog the add command writes to never holds two entries whose
\* titles are equal case-insensitively.
C1_NoDuplicateTitles ==
    \A i, j \in 1..Len(AppListMovies) :
        i # j => Lower(AppListMovies[i]["title"].v) # Lower(AppListMovies[j]["title"].v)

\* C21: when the metadata request of the add command fails by timeout or by
\* connection failure, the command makes no call that changes the storage and
\* is back at the menu: it does not prompt for another title.
C21_FailureReturnsToMenu ==
    last.op \in {"ConnectionError", "Timeout"} =>
        /\ jsonFile = last.jsonPrev
        /\ csvFile = last.csvPrev
        /\ ~last.jsonWrote /\ ~last.csvWrote
        /\ app.pc = "menu"

-----------------------------------------------------------------------------
(* difflib.get_close_matches, as get_best_match calls it *)

\* ord(c) for the characters of the model
CharCode ==
    [c \in {" ", "0", "1", "2", "3", "9", "I", "P", "S", "T", "U",
            "i", "n", "p", "s", "t", "u", "x"} |->
        CASE c = " " -> 32 [] c = "0" -> 48 [] c = "1" -> 49 [] c = "2" -> 50
          [] c = "3" -> 51 [] c = "9" -> 57 [] c = "I" -> 73 [] c = "P" -> 80
          [] c = "S" -> 83 [] c = "T" -> 84 [] c = "U" -> 85 [] c = "i" -> 105
          [] c = "n" -> 110 [] c = "p" -> 112 [] c = "s" -> 115 [] c = "t" -> 116
          [] c = "u" -> 117 [] OTHER -> 120]

\* s < t for two strings
RECURSIVE StrLess(_, _)
StrLess(s, t) ==
    IF t = <<>> THEN FALSE
    ELSE IF s = <<>> THEN TRUE
    ELSE IF Head(s) = Head(t) THEN StrLess(Tail(s), Tail(t))
    ELSE CharCode[Head(s)] < CharCode[Head(t)]

\* the blocks a[i:i+k] == b[j:j+k] within a[alo:ahi] and b[blo:bhi]
Blocks(a, b, alo, ahi, blo, bhi) ==
    {blk \in (alo..ahi) \X (blo..bhi) \X (0..(ahi - alo)) :
        /\ blk[1] + blk[3] <= ahi
        /\ blk[2] + blk[3] <= bhi
        /\ SubSeq(a, blk[1] + 1, blk[1] + blk[3]) = SubSeq(b, blk[2] + 1, blk[2] + blk[3])}

\* SequenceMatcher.find_longest_match: a longest block, the one that starts
\* earliest in a and, among those, earliest in b
FindLongestMatch(a, b, alo, ahi, blo, bhi) ==
    LET all == Blocks(a, b, alo, ahi, blo, bhi)
    IN CHOOSE m \in all :
          \A o \in all :
              \/ o[3] < m[3]
              \/ o[3] = m[3] /\ (m[1] < o[1] \/ (m[1] = o[1] /\ m[2] <= o[2]))

\* SequenceMatcher.get_matching_blocks, summed: the block found, then the
\* pieces to its left and to its right
RECURSIVE Matches(_, _, _, _, _, _)
Matches(a, b, alo, ahi, blo, bhi) ==
    LET m == FindLongestMatch(a, b, alo, ahi, blo, bhi)
    IN IF m[3] = 0 THEN 0
       ELSE m[3] + Matches(a, b, alo, m[1], blo, m[2])
                 + Matches(a, b, m[1] + m[3], ahi, m[2] + m[3], bhi)

\* SequenceMatcher.ratio() as the fraction <<2 * matches, length>>; 1.0 for
\* two empty strings
Ratio(a, b) ==
    IF Len(a) + Len(b) = 0 THEN <<1, 1>>
    ELSE <<2 * Matches(a, b, 0, Len(a), 0, Len(b)), Len(a) + Len(b)>>

\* r >= cutoff, the cutoff given in tenths
AtLeastCutoff(r, tenths) == 10 * r[1] >= tenths * r[2]

\* (score, x) < (score2, y) as heapq.nlargest compares the tuples
ScoredLess(r, x, r2, y) ==
    \/ r[1] * r2[2] < r2[1] * r[2]
    \/ r[1] * r2[2] = r2[1] * r[2] /\ StrLess(x, y)

\* s.ratio() of every possibility against the word
RECURSIVE Scores(_, _)
Scores(word, possibilities) ==
    IF possibilities = <<>> THEN <<>>
    ELSE <<Ratio(Head(possibilities), word)>> \o Scores(word, Tail(possibilities))

\* the n best of the possibilities scoring at least cutoff, best first
GetCloseMatches(word, possibilities, n, tenths) ==
    LET scores == Scores(word, possibilities)
        good == {i \in 1..Len(possibilities) : AtLeastCutoff(scores[i], tenths)}
        above(i) == Cardinality({j \in good :
                        ScoredLess(scores[i], possibilities[i], scores[j], possibilities[j])})
        kept == IF Cardinality(good) < n THEN Cardinality(good) ELSE n
    IN [k \in 1..kept |-> possibilities[CHOOSE i \in good : above(i) = k - 1]]

-----------------------------------------------------------------------------
(* UserInputHandler: get_valid_numeric_input and get_best_match *)

Digits == [c \in {"0", "1", "2", "3", "9"} |-> CharCode[c] - 48]

\* int(text): the value, or -1 for the ValueError of a text that is no
\* sequence of digits (the selection prompt has no use for a sign)
RECURSIVE ParseInt(_, _)
ParseInt(text, acc) ==
    IF text = <<>> THEN acc
    ELSE IF Head(text) \in DOMAIN Digits
         THEN ParseInt(Tail(text), 10 * acc + Digits[Head(text)])
         ELSE -1

\* a loop that takes the largest value allowed for a value out of the range
ClampedNumericInput(line, min_value, max_value) ==
    LET user_input == Strip(line)
        value == ParseInt(user_input, 0)
    IN IF user_input = <<>> THEN [kind |-> "cancel", value |-> 0]
       ELSE IF value = -1 THEN [kind |-> "again", value |-> 0]
       ELSE IF min_value <= value /\ value <= max_value
            THEN [kind |-> "value", value |-> value]
            ELSE [kind |-> "value", value |-> max_value]

\* one pass of the loop of get_valid_numeric_input: "cancel" for an empty
\* line, "again" for a line the loop rejects, else the value
GetValidNumericInput(line, min_value, max_value) ==
    LET user_input == Strip(line)
        value == ParseInt(user_input, 0)
    IN IF user_input = <<>> THEN [kind |-> "cancel", value |-> 0]
       ELSE IF value = -1 THEN [kind |-> "again", value |-> 0]
       ELSE IF min_value <= value /\ value <= max_value
            THEN [kind |-> "value", value |-> value]
            ELSE [kind |-> "again", value |-> 0]

\* keys of {option.lower(): option for option in options}, in insertion order
RECURSIVE LowerKeys(_)
LowerKeys(options) ==
    IF options = <<>> THEN <<>>
    ELSE LET rest == LowerKeys(SubSeq(options, 1, Len(options) - 1))
             key == Lower(options[Len(options)])
         IN IF \E i \in 1..Len(rest) : rest[i] = key THEN rest ELSE Append(rest, key)

\* a lookup that hands back the lower-cased key in place of the option
LowerOptionsGetKey(options, key) == key

\* lower_options[key]: the last option with that lower-case form
LowerOptionsGet(options, key) ==
    options[CHOOSE i \in 1..Len(options) :
               /\ Lower(options[i]) = key
               /\ \A j \in (i + 1)..Len(options) : Lower(options[j]) # key]

\* user_input_lower in lower_options
IsExactMatch(user_input, options) ==
    \E i \in 1..Len(options) : Lower(options[i]) = Lower(user_input)

\* the titles containing the input, the last known title first
SubstringMatchesReversed(user_input, options) ==
    LET reversed == [i \in 1..Len(options) |-> options[Len(options) + 1 - i]]
    IN SelectSeq(reversed, LAMBDA title : Contains(Lower(title), Lower(user_input)))

\* [title for title in options if user_input_lower in title.lower()]
SubstringMatches(user_input, options) ==
    SelectSeq(options, LAMBDA title : Contains(Lower(title), Lower(user_input)))

\* close matches with neither the limit of 5 nor the cutoff of 0.4
CloseMatchesUncut(user_input, options) ==
    GetCloseMatches(Lower(user_input), LowerKeys(options), Len(options), 0)

\* difflib.get_close_matches(user_input_lower, lower_options.keys(), n=5, cutoff=0.4)
CloseMatches(user_input, options) ==
    GetCloseMatches(Lower(user_input), LowerKeys(options), 5, 4)

\* the containment test made before the test for an exact match
SubstringBeforeExact(user_input, options) ==
    IF SubstringMatches(user_input, options) # <<>> THEN "substring"
    ELSE IF IsExactMatch(user_input, options) THEN "exact"
    ELSE IF CloseMatches(user_input, options) # <<>> THEN "close"
    ELSE "none"

\* a resolver that asks for a selection also when it has no close match
StepOfAlwaysAsks(user_input, options) ==
    IF IsExactMatch(user_input, options) THEN "exact"
    ELSE IF SubstringMatches(user_input, options) # <<>> THEN "substring"
    ELSE "close"

\* the step of get_best_match that decides the call
StepOf(user_input, options) ==
    IF IsExactMatch(user_input, options) THEN "exact"
    ELSE IF SubstringMatches(user_input, options) # <<>> THEN "substring"
    ELSE IF CloseMatches(user_input, options) # <<>> THEN "close"
    ELSE "none"

ResolverTitles == {TitleUp, TitleUpLower, <<"U", "p", "s">>, <<"T", "i", "p", "s">>}

\* the sequences of at most n known titles
RECURSIVE OptionLists(_)
OptionLists(n) ==
    IF n = 0 THEN {<<>>}
    ELSE OptionLists(n - 1) \cup
         {Append(o, t) : o \in {l \in OptionLists(n - 1) : Len(l) = n - 1}, t \in ResolverTitles}

\* six known titles close to the input "put", none of them containing it
LongOptions ==
    <<<<"P", "i", "t">>, <<"P", "u", "n">>, <<"P", "u", "s">>, <<"T", "u", "t">>,
      <<"S", "u", "t">>, TitleUp>>

\* the known titles of a call: the short sequences and the long one
OptionSets == OptionLists(MaxOptions) \cup {LongOptions}

UserInputs ==
    {<<"u", "p">>, <<"U", "P">>, <<"p">>, <<"p", "u", "t">>, <<"t", "u", "p">>, <<"x">>}

SelectionLines ==
    {<<>>, <<" ">>, <<"x">>, <<"0">>, <<"1">>, <<"2">>, <<" ", "3">>, <<"1", "0">>}

ResolverInit ==
    /\ jsonFile = NoFile
    /\ csvFile = NoCsvFile
    /\ origin = "empty"
    /\ last = NoOp
    /\ app = AppIdle
    /\ res = ResIdle
    /\ files = NoFiles

\* get_best_match up to its return or its first prompt
GetBestMatch(user_input, options) ==
    /\ res.pc = "idle"
    /\ LET step == StepOf(user_input, options)
           call == [ResIdle EXCEPT !.user_input = user_input, !.options = options,
                                   !.step = step]
           close_matches == CloseMatches(user_input, options)
       IN res' =
            CASE step = "exact" ->
                   [call EXCEPT !.pc = "returned",
                                !.result = PyStr(LowerOptionsGet(options, Lower(user_input)))]
              [] step = "substring" ->
                   [call EXCEPT !.pc = "select", !.prompts = 1,
                                !.candidates = SubstringMatches(user_input, options),
                                !.out = {"Titles containing"}]
              [] step = "close" ->
                   [call EXCEPT !.pc = "select", !.prompts = 1,
                                !.candidates =
                                    [k \in 1..Len(close_matches) |->
                                        LowerOptionsGet(options, close_matches[k])],
                                !.out = {"Did you mean"}]
              [] OTHER ->
                   [call EXCEPT !.pc = "returned", !.out = {"No matches found."}]
    /\ UNCHANGED <<jsonFile, csvFile, files, origin, last, app>>

\* one response to the selection prompt of get_best_match
Select(line) ==
    /\ res.pc = "select"
    /\ LET selected == GetValidNumericInput(line, 1, Len(res.candidates))
       IN CASE selected.kind = "value" ->
                 res' = [res EXCEPT !.pc = "returned", !.line = line,
                                    !.result = PyStr(res.candidates[selected.value])]
            [] selected.kind = "cancel" ->
                 res' = [res EXCEPT !.pc = "returned", !.line = line,
                                    !.out = @ \cup {"Operation cancelled.",
                                                   IF res.step = "substring"
                                                   THEN "Search cancelled."
                                                   ELSE "No matches found."}]
            [] OTHER ->
                 /\ res.prompts <= MaxResponses
                 /\ res' = [res EXCEPT !.prompts = @ + 1, !.line = line,
                                       !.out = @ \cup {"Invalid input"}]
    /\ UNCHANGED <<jsonFile, csvFile, files, origin, last, app>>

ResolverNext ==
    \/ res.pc = "idle" /\ \E u \in UserInputs, o \in OptionSets : GetBestMatch(u, o)
    \/ res.pc = "select" /\ \E line \in SelectionLines : Select(line)

ResolverSpec == ResolverInit /\ [][ResolverNext]_vars

\* C10: when the input equals a known title case-insensitively, get_best_match
\* returns that title at once: nothing is listed and nothing is asked, also
\* when other known titles contain the input.
C10_ExactMatchReturnsAtOnce ==
    (/\ res.pc # "idle"
     /\ \E i \in 1..Len(res.options) : Lower(res.options[i]) = Lower(res.user_input)) =>
        /\ res.pc = "returned"
        /\ res.prompts = 0 /\ res.candidates = <<>> /\ res.out = {}
        /\ res.result.t = "str"
        /\ Lower(res.result.v) = Lower(res.user_input)
        /\ \E i \in 1..Len(res.options) : res.options[i] = res.result.v

\* an exact match returned while another known title contains the input
C10_Witness ==
    /\ res.pc = "returned"
    /\ res.step = "exact"
    /\ \E i \in 1..Len(res.options) :
          /\ Lower(res.options[i]) # Lower(res.user_input)
          /\ Contains(Lower(res.options[i]), Lower(res.user_input))

-----------------------------------------------------------------------------
(* Properties of the substring step and of the selection protocol *)

\* the positions of the known titles that contain the input, and whether a
\* known title equals it, both without regard to case
Hits == {i \in 1..Len(res.options) :
            Contains(Lower(res.options[i]), Lower(res.user_input))}
NoExactHit == \A i \in 1..Len(res.options) : Lower(res.options[i]) # Lower(res.user_input)

\* the k-th hit in the order of the known titles
KthHit(k) == CHOOSE i \in Hits : Cardinality({j \in Hits : j < i}) = k - 1

\* the number a response line stands for, 0 for a blank line
Chosen == IF Strip(res.line) = <<>> THEN 0 ELSE ParseInt(Strip(res.line), 0)

\* C11: when the input is no exact match and exactly one known title contains
\* it, get_best_match returns that title: no prompt is issued and the result
\* is never no-match.
C11_SingleHitReturned ==
    (res.pc # "idle" /\ NoExactHit /\ Cardinality(Hits) = 1) =>
        /\ res.pc = "returned"
        /\ res.prompts = 0
        /\ res.result = PyStr(res.options[KthHit(1)])

\* the presentation and the selection that C12 describes
PresentedInOrder ==
    /\ "Titles containing" \in res.out
    /\ res.prompts >= 1
    /\ Len(res.candidates) = Cardinality(Hits)
    /\ \A k \in 1..Len(res.candidates) : res.candidates[k] = res.options[KthHit(k)]
    /\ (res.pc = "returned" /\ Chosen \in 1..Len(res.candidates)) =>
            res.result = PyStr(res.options[KthHit(Chosen)])

\* C12 as claimed: whenever several known titles contain the input they are
\* presented numbered from 1 in the order of the known titles, and the
\* selection of index k returns the k-th of them.
C12_SeveralHitsPresented ==
    (res.pc # "idle" /\ Cardinality(Hits) > 1) => PresentedInOrder

\* C12, amended: when the input equals no known title case-insensitively and
\* several known titles contain it, they are presented numbered from 1 in the
\* order of the known titles, and the selection of index k returns the k-th.
C12_NumberedInOrder ==
    (res.pc # "idle" /\ NoExactHit /\ Cardinality(Hits) > 1) => PresentedInOrder

\* the second of several presented titles, another title than the first, has
\* been selected
C12_Witness ==
    /\ res.pc = "returned"
    /\ NoExactHit
    /\ Cardinality(Hits) > 1
    /\ res.options[KthHit(1)] # res.options[KthHit(2)]
    /\ Chosen = 2
    /\ res.result = PyStr(res.options[KthHit(2)])

\* C13: in the selection protocol a blank response cancels and get_best_match
\* returns no match; a response that is no number within 1..number of
\* candidates selects nothing and leads to a new prompt; the protocol ends
\* only on a blank response or on an index within the range, which picks the
\* candidate of that index.
C13_SelectionProtocol ==
    [][res.pc = "select" =>
          LET line == res'.line
              blank == \A i \in 1..Len(line) : line[i] = " "
              k == ParseInt(Strip(line), 0)
              inRange == ~blank /\ k \in 1..Len(res.candidates)
          IN /\ blank => (res'.pc = "returned" /\ res'.result = PyNone)
             /\ (~blank /\ ~inRange) =>
                    /\ res'.pc = "select"
                    /\ res'.result = PyNone
                    /\ res'.prompts = res.prompts + 1
                    /\ res'.candidates = res.candidates
             /\ res'.pc = "returned" =>
                    \/ blank
                    \/ inRange /\ res'.result = PyStr(res.candidates[k])]_vars

\* a title selected after a response that was rejected
C13_Witness ==
    /\ res.pc = "returned"
    /\ res.prompts > 1
    /\ res.result.t = "str"
    /\ Chosen \in 1..Len(res.candidates)

\* similarity of each of some titles to the input, as difflib computes it
Similarity(titles) ==
    Scores(Lower(res.user_input), [i \in 1..Len(titles) |-> Lower(titles[i])])

\* C14: the approximate step runs only when neither the exact nor the
\* substring step found a title; it presents at most 5 candidates, each at
\* or above the similarity 0.4, the more similar first; and one call presents
\* at most one of the two candidate lists.
C14_ApproximateStep ==
    /\ ~({"Titles containing", "Did you mean"} \subseteq res.out)
    /\ "Did you mean" \in res.out =>
          LET sim == Similarity(res.candidates)
          IN /\ NoExactHit
             /\ Hits = {}
             /\ Len(res.candidates) \in 1..5
             /\ \A k \in 1..Len(res.candidates) :
                    /\ \E i \in 1..Len(res.options) : res.options[i] = res.candidates[k]
                    /\ 10 * sim[k][1] >= 4 * sim[k][2]
             /\ \A k, l \in 1..Len(res.candidates) :
                    k < l => sim[k][1] * sim[l][2] >= sim[l][1] * sim[k][2]

\* five candidates presented while a sixth known title is also at or above
\* the threshold
C14_Witness ==
    /\ "Did you mean" \in res.out
    /\ Len(res.candidates) = 5
    /\ \E i \in 1..Len(res.options) :
          /\ \A k \in 1..5 : res.candidates[k] # res.options[i]
          /\ 10 * Similarity(res.options)[i][1] >= 4 * Similarity(res.options)[i][2]

\* C15: with no exact, no substring and no approximate hit among the known
\* titles (an empty sequence of known titles included) get_best_match returns
\* no match, reports "No matches found." and issues no prompt.
C15_NoMatch ==
    (/\ res.pc # "idle"
     /\ NoExactHit
     /\ Hits = {}
     /\ LET sim == Similarity(res.options)
        IN \A i \in 1..Len(res.options) : 10 * sim[i][1] < 4 * sim[i][2]) =>
        /\ res.pc = "returned"
        /\ res.result = PyNone
        /\ res.out = {"No matches found."}
        /\ res.prompts = 0
        /\ res.candidates = <<>>

\* no match among known titles that all are too far from the input
C15_Witness ==
    /\ res.pc = "returned"
    /\ res.step = "none"
    /\ Len(res.options) > 1
    /\ \E i \in 1..Len(res.options) : Similarity(res.options)[i][1] > 0

-----------------------------------------------------------------------------
(* FileHandlerFactory and the five file handlers *)

\* position of the last c in path, 0 when there is none
LastIndexOf(path, c) ==
    IF \E i \in 1..Len(path) : path[i] = c
    THEN CHOOSE i \in 1..Len(path) : path[i] = c /\ \A j \in (i + 1)..Len(path) : path[j] # c
    ELSE 0

\* a suffix that starts at the first dot of the path
SplitExtFirstDot(path) ==
    IF \E i \in 1..Len(path) : path[i] = "."
    THEN SubSeq(path, CHOOSE i \in 1..Len(path) :
                          path[i] = "." /\ \A j \in 1..(i - 1) : path[j] # ".", Len(path))
    ELSE <<>>

\* os.path.splitext(path)[1]: from the last dot of the last component, unless
\* only dots come before it in that component
SplitExt(path) ==
    LET sepIndex == LastIndexOf(path, "/")
        dotIndex == LastIndexOf(path, ".")
    IN IF dotIndex > sepIndex /\ \E i \in (sepIndex + 1)..(dotIndex - 1) : path[i] # "."
       THEN SubSeq(path, dotIndex, Len(path))
       ELSE <<>>

\* FileHandlerFactory._handlers, in the order of the dict
Handlers ==
    <<[ext |-> <<".", "h", "t", "m", "l">>, handler |-> "HTMLFileHandler"],
      [ext |-> <<".", "h", "t", "m">>, handler |-> "HTMLFileHandler"],
      [ext |-> <<".", "j", "s", "o", "n">>, handler |-> "JSONFileHandler"],
      [ext |-> <<".", "c", "s", "v">>, handler |-> "CSVFileHandler"],
      [ext |-> <<".", "t", "x", "t">>, handler |-> "TXTFileHandler"],
      [ext |-> <<".", "b", "i", "n">>, handler |-> "BinaryFileHandler"],
      [ext |-> <<".", "d", "a", "t">>, handler |-> "BinaryFileHandler"],
      [ext |-> <<".", "p", "n", "g">>, handler |-> "BinaryFileHandler"],
      [ext |-> <<".", "j", "p", "g">>, handler |-> "BinaryFileHandler"],
      [ext |-> <<".", "m", "p", "3">>, handler |-> "BinaryFileHandler"],
      [ext |-> <<".", "w", "a", "v">>, handler |-> "BinaryFileHandler"],
      [ext |-> <<".", "p", "d", "f">>, handler |-> "BinaryFileHandler"]>>

\* FileHandlerFactory.get_handler: the handler class, or the ValueError with
\* the suffix and the supported suffixes its message names
GetHandler(file_path) ==
    LET ext == Lower(SplitExt(file_path))
    IN IF \E i \in 1..Len(Handlers) : Handlers[i].ext = ext
       THEN [raised |-> "none",
             handler |-> Handlers[CHOOSE i \in 1..Len(Handlers) : Handlers[i].ext = ext].handler,
             names |-> <<>>]
       ELSE [raised |-> "ValueError", handler |-> "none",
             names |-> <<ext>> \o [i \in 1..Len(Handlers) |-> Handlers[i].ext]]

\* the files as one record
Disk == [json |-> jsonFile, csv |-> csvFile, txt |-> files.txt, bin |-> files.bin,
         html |-> files.html, undecodable |-> files.undecodable]

\* the file of a handler
FileOf(disk, handler) ==
    CASE handler = "JSONFileHandler" -> disk.json
      [] handler = "CSVFileHandler" -> disk.csv
      [] handler = "TXTFileHandler" -> disk.txt
      [] handler = "BinaryFileHandler" -> disk.bin
      [] OTHER -> disk.html

\* the exceptions the except clause of load_data catches
Caught(handler) ==
    IF handler = "JSONFileHandler" THEN {"JSONDecodeError", "OSError"} ELSE {"OSError"}

\* what reading and parsing the file raises inside the try of load_data
ReadRaises(disk, handler) ==
    IF handler # "BinaryFileHandler" /\ handler \in disk.undecodable
    THEN "UnicodeDecodeError"
    ELSE IF handler = "JSONFileHandler" /\ ~disk.json.valid THEN "JSONDecodeError"
    ELSE "none"

\* the value load_data returns for a missing file and after a caught error
EmptyValue(handler) ==
    CASE handler = "JSONFileHandler" -> PyDict(EmptyDict)
      [] handler = "CSVFileHandler" -> PyList(<<>>)
      [] handler = "TXTFileHandler" -> PyList(<<>>)
      [] handler = "BinaryFileHandler" -> PyBytes(<<>>)
      [] OTHER -> PyStr(<<>>)

\* load_data of a handler: the exception that leaves it, or the value
LoadData(disk, handler) ==
    IF ~FileOf(disk, handler).exists THEN [raised |-> "none", value |-> EmptyValue(handler)]
    ELSE IF ReadRaises(disk, handler) \in Caught(handler)
         THEN [raised |-> "none", value |-> EmptyValue(handler)]
    ELSE IF ReadRaises(disk, handler) # "none"
         THEN [raised |-> ReadRaises(disk, handler), value |-> PyNone]
    ELSE [raised |-> "none",
          value |-> CASE handler = "JSONFileHandler" -> PyDict(JsonLoadData(disk.json))
                      [] handler = "CSVFileHandler" -> PyList(CsvLoadData(disk.csv))
                      [] handler = "TXTFileHandler" -> PyList(TxtLoadData(disk.txt))
                      [] handler = "BinaryFileHandler" -> PyBytes(BinaryLoadData(disk.bin))
                      [] OTHER -> PyStr(HtmlLoadData(disk.html))]

\* save_data of a handler: the exception that leaves it, and the files after
SaveData(disk, handler, data) ==
    IF ~AcceptsType(handler, data) THEN [raised |-> "ValueError", disk |-> disk]
    ELSE [raised |-> "none",
          disk |->
            CASE handler = "JSONFileHandler" ->
                   [disk EXCEPT !.json = JsonSaveData(disk.json, data.v),
                                !.undecodable = @ \ {handler}]
              [] handler = "CSVFileHandler" ->
                   [disk EXCEPT !.csv = CsvSaveData(disk.csv, data.v),
                                !.undecodable = IF data.v = <<>> THEN @ ELSE @ \ {handler}]
              [] handler = "TXTFileHandler" ->
                   [disk EXCEPT !.txt = TxtSaveData(disk.txt, data.v),
                                !.undecodable = @ \ {handler}]
              [] handler = "BinaryFileHandler" ->
                   [disk EXCEPT !.bin = [exists |-> TRUE, content |-> data.v]]
              [] OTHER ->
                   [disk EXCEPT !.html = [exists |-> TRUE, content |-> data.v],
                                !.undecodable = @ \ {handler}]]

\* the paths handed to get_handler
Paths ==
    {<<"a">> \o Handlers[i].ext : i \in 1..Len(Handlers)} \cup
    {<<"a", ".", "T", "x", "T">>, <<"a", ".", "j", "S", "o", "n">>,
     <<"a", ".", "t", "a", "r", ".", "c", "s", "v">>, <<"d", ".", "x", "/", "a", ".", "b", "i", "n">>,
     <<"a">>, <<"a", ".">>, <<".", "j", "s", "o", "n">>, <<".", ".", "t", "x", "t">>,
     <<"a", ".", "c", "s", "v", "/", "b">>, <<"a", ".", "x", "m", "l">>, <<"a", ".", "U", "P">>,
     <<"a", ".", "j", "s", "o", "n", " ">>, <<"a", ".", "c", "s", "v", ".", "u", "p">>}

\* the values handed to save_data of each handler
SaveValues(handler) ==
    CASE handler = "none" -> {}
      [] handler = "JSONFileHandler" ->
           {PyDict(EmptyDict), PyDict([hasMovies |-> TRUE, movies |-> <<>>]),
            PyDict([hasMovies |-> TRUE, movies |-> <<JsonNewMovie(DirectArgs(TitleUp))>>])}
      [] handler = "CSVFileHandler" ->
           {PyList(<<>>),
            PyList(<<[title |-> PyStr(TitleUp), note |-> PyStr(<<"n">>)]>>),
            PyList(<<[title |-> PyStr(TitleUp), note |-> PyNone]>>),
            PyList(<<CsvNewMovie(DirectArgs(TitleIt))>>)}
      [] handler = "TXTFileHandler" ->
           {PyList(<<>>), PyList(<<<<"u", "p">>>>), PyList(<<<<"u", " ", "p">>, <<"i", "t">>>>),
            PyList(<<<<" ", "u">>, <<>>>>)}
      [] handler = "BinaryFileHandler" ->
           {PyBytes(<<>>), PyBytes(<<"00", "ff">>), PyStr(<<"u", "p">>),
            [t |-> "bytearray", v |-> <<"00">>], PyNone}
      [] OTHER ->
           {PyStr(<<>>), PyStr(<<"<", "p", ">">>), PyStr(<<"u", "\r", "\n", "p">>),
            PyBytes(<<"3c">>), PyNone}

\* the files a handler can find: none; empty ones; a JSON document without
\* movies, a CSV header without rows, blank lines, a text with "\r\n";
\* files with content; files whose bytes are not UTF-8
Disks ==
    {[json |-> NoFile, csv |-> NoCsvFile, txt |-> NoTextFile, bin |-> NoTextFile,
      html |-> NoTextFile, undecodable |-> {}],
     [json |-> [exists |-> TRUE, valid |-> FALSE, hasMovies |-> FALSE, movies |-> <<>>],
      csv |-> [exists |-> TRUE, header |-> <<>>, rows |-> <<>>],
      txt |-> [exists |-> TRUE, content |-> <<>>],
      bin |-> [exists |-> TRUE, content |-> <<>>],
      html |-> [exists |-> TRUE, content |-> <<>>], undecodable |-> {}],
     [json |-> [exists |-> TRUE, valid |-> TRUE, hasMovies |-> FALSE, movies |-> <<>>],
      csv |-> [exists |-> TRUE, header |-> LegacyHeader, rows |-> <<>>],
      txt |-> [exists |-> TRUE, content |-> <<" ", "\n", "\n">>],
      bin |-> [exists |-> TRUE, content |-> <<"0a">>],
      html |-> [exists |-> TRUE, content |-> <<"u", "\r", "\n", "p">>], undecodable |-> {}],
     [json |-> JsonSaveData(NoFile, [hasMovies |-> TRUE, movies |-> <<LegacyJsonMovie>>]),
      csv |-> [exists |-> TRUE, header |-> LegacyHeader,
               rows |-> <<CsvDictToRow(LegacyHeader, LegacyJsonMovie)>>],
      txt |-> [exists |-> TRUE, content |-> <<"i", "t", "\n">>],
      bin |-> [exists |-> TRUE, content |-> <<"00", "ff">>],
      html |-> [exists |-> TRUE, content |-> <<"<", "p", ">">>], undecodable |-> {}],
     [json |-> [exists |-> TRUE, valid |-> FALSE, hasMovies |-> FALSE, movies |-> <<>>],
      csv |-> [exists |-> TRUE, header |-> <<>>, rows |-> <<>>],
      txt |-> [exists |-> TRUE, content |-> <<>>],
      bin |-> [exists |-> TRUE, content |-> <<"ff">>],
      html |-> [exists |-> TRUE, content |-> <<>>],
      undecodable |-> {"JSONFileHandler", "CSVFileHandler", "TXTFileHandler",
                       "HTMLFileHandler"}]}

\* no handler created yet
NoCall ==
    [op |-> "none", handler |-> "none", data |-> PyNone, raised |-> "none",
     value |-> PyNone, names |-> <<>>, before |-> [json |-> NoFile]]

HandlerInit ==
    /\ \E d \in Disks :
          /\ jsonFile = d.json
          /\ csvFile = d.csv
          /\ files = [txt |-> d.txt, bin |-> d.bin, html |-> d.html,
                      undecodable |-> d.undecodable]
    /\ origin = "empty"
    /\ last = NoCall
    /\ app = AppIdle
    /\ res = ResIdle

\* FileHandlerFactory.get_handler(file_path): the handler bound to the path,
\* or the error; the constructor stores the path and touches no file
FactoryGetHandler(file_path) ==
    /\ last.op \in {"none", "get_handler"}
    /\ LET got == GetHandler(file_path)
       IN last' = [op |-> "get_handler", handler |-> got.handler, data |-> PyStr(file_path),
                   raised |-> got.raised, value |-> PyNone, names |-> got.names,
                   before |-> Disk]
    /\ UNCHANGED <<jsonFile, csvFile, files, origin, app, res>>

\* handler.load_data()
HandlerLoad ==
    /\ last.handler # "none"
    /\ LET loaded == LoadData(Disk, last.handler)
       IN last' = [op |-> "load", handler |-> last.handler, data |-> PyNone,
                   raised |-> loaded.raised, value |-> loaded.value, names |-> <<>>,
                   before |-> Disk]
    /\ UNCHANGED <<jsonFile, csvFile, files, origin, app, res>>

\* handler.save_data(data)
HandlerSave(data) ==
    /\ last.handler # "none"
    /\ LET saved == SaveData(Disk, last.handler, data)
       IN /\ jsonFile' = saved.disk.json
          /\ csvFile' = saved.disk.csv
          /\ files' = [txt |-> saved.disk.txt, bin |-> saved.disk.bin,
                       html |-> saved.disk.html, undecodable |-> saved.disk.undecodable]
          /\ last' = [op |-> "save", handler |-> last.handler, data |-> data,
                      raised |-> saved.raised, value |-> PyNone, names |-> <<>>,
                      before |-> Disk]
    /\ UNCHANGED <<origin, app, res>>

HandlerNext ==
    \/ \E file_path \in Paths : FactoryGetHandler(file_path)
    \/ HandlerLoad
    \/ \E data \in SaveValues(last.handler) : HandlerSave(data)

HandlerSpec == HandlerInit /\ [][HandlerNext]_vars

-----------------------------------------------------------------------------
(* Properties of the file handlers and of the factory *)

\* a value of the shape its handler stores: a dict, a list of dicts, a list of
\* non-blank trimmed lines, bytes, a string
InShape(handler, data) ==
    CASE handler = "JSONFileHandler" -> data.t = "dict"
      [] handler = "CSVFileHandler" -> data.t = "list"
      [] handler = "TXTFileHandler" ->
           /\ data.t = "list"
           /\ \A i \in 1..Len(data.v) :
                 /\ data.v[i] # <<>>
                 /\ Strip(data.v[i]) = data.v[i]
                 /\ \A j \in 1..Len(data.v[i]) : data.v[i][j] \notin {"\n", "\r"}
      [] handler = "BinaryFileHandler" -> data.t = "bytes"
      [] OTHER -> data.t = "str"

\* C16: for every handler and every value of its shape, save_data(v)
\* followed by load_data() returns a value equal to v, except for the CSV
\* handler's save of an empty list.
C16_RoundTrip ==
    (/\ last.op = "save"
     /\ InShape(last.handler, last.data)
     /\ ~(last.handler = "CSVFileHandler" /\ last.data.v = <<>>)) =>
        /\ last.raised = "none"
        /\ LoadData(Disk, last.handler) = [raised |-> "none", value |-> last.data]

\* C17: CSVFileHandler.save_data of an empty list changes nothing: a file
\* that exists keeps its content, load_data returns the rows it returned
\* before, and a file that does not exist is not created.
C17_EmptySaveIsNoOp ==
    (last.op = "save" /\ last.handler = "CSVFileHandler" /\ last.data.v = <<>>) =>
        /\ last.raised = "none"
        /\ Disk = last.before
        /\ LoadData(Disk, "CSVFileHandler") = LoadData(last.before, "CSVFileHandler")
        /\ csvFile.exists = last.before.csv.exists

\* an empty list saved over a CSV file that holds a row
C17_Witness ==
    /\ last.op = "save"
    /\ last.handler = "CSVFileHandler"
    /\ last.data.v = <<>>
    /\ last.before.csv.rows # <<>>
    /\ csvFile.rows # <<>>

\* the place in a path where its suffix starts: a dot with no dot and no
\* separator after it, and before it a character of the same path component
\* that is no dot
SuffixStarts(path) ==
    {k \in 1..Len(path) :
        /\ path[k] = "."
        /\ \A j \in (k + 1)..Len(path) : path[j] \notin {".", "/"}
        /\ \E i \in 1..(k - 1) :
              /\ path[i] # "."
              /\ \A j \in i..k : path[j] # "/"}

\* the suffix of a path, empty when it has none
SuffixOf(path) ==
    IF SuffixStarts(path) = {} THEN <<>>
    ELSE SubSeq(path, CHOOSE k \in SuffixStarts(path) : TRUE, Len(path))

\* C18: get_handler returns, for a path whose suffix is in the table without
\* regard to case, a handler of the type the table gives for it; for every
\* other suffix, none included, it fails with an error that names the suffix
\* and the supported suffixes; it touches no file, and its result depends on
\* the path alone.
C18_FactoryByTable ==
    last.op = "get_handler" =>
        LET suffix == Lower(SuffixOf(last.data.v))
            rows == {i \in 1..Len(Handlers) : Handlers[i].ext = suffix}
        IN /\ Disk = last.before
           /\ rows # {} =>
                 /\ last.raised = "none"
                 /\ \A i \in rows : last.handler = Handlers[i].handler
           /\ rows = {} =>
                 /\ last.raised = "ValueError"
                 /\ last.handler = "none"
                 /\ last.names[1] = suffix
                 /\ \A i \in 1..Len(Handlers) : last.names[i + 1] = Handlers[i].ext

\* a handler returned for a path with two dots and capital letters in its suffix
C18_Witness ==
    /\ last.op = "get_handler"
    /\ last.raised = "none"
    /\ last.handler = "TXTFileHandler"
    /\ SuffixOf(last.data.v) # Lower(SuffixOf(last.data.v))

\* the file a load found was missing, empty, a CSV header without rows, or
\* a JSON file that does not parse
NothingToLoad(disk, handler) ==
    CASE handler = "JSONFileHandler" -> ~disk.json.exists \/ ~disk.json.valid
      [] handler = "CSVFileHandler" ->
           ~disk.csv.exists \/ (disk.csv.rows = <<>> /\ handler \notin disk.undecodable)
      [] OTHER ->
           \/ ~FileOf(disk, handler).exists
           \/ FileOf(disk, handler).content = <<>> /\ handler \notin disk.undecodable

\* C19: for a missing file, an empty file, a CSV file with a header only and
\* a malformed JSON file, load_data() returns the empty value of the handler
\* without raising and without changing the file, and list_movies() of the
\* backend on that file is empty.
C19_LoadNeverFails ==
    (last.op = "load" /\ NothingToLoad(last.before, last.handler)) =>
        /\ last.raised = "none"
        /\ last.value = EmptyValue(last.handler)
        /\ Disk = last.before
        /\ last.handler = "JSONFileHandler" => JsonListMovies(jsonFile) = <<>>
        /\ last.handler = "CSVFileHandler" => CsvListMovies(csvFile) = <<>>

\* C20: save_data of the binary handler with a value that is no bytes, and
\* of the HTML handler with a value that is no str, raises to the caller
\* before the file is opened: the files are as they were before the call.
C20_WrongTypeRejected ==
    (/\ last.op = "save"
     /\ \/ last.handler = "BinaryFileHandler" /\ last.data.t # "bytes"
        \/ last.handler = "HTMLFileHandler" /\ last.data.t # "str") =>
        /\ last.raised = "ValueError"
        /\ Disk = last.before

\* a value of the wrong type handed to a handler whose file holds content
C20_Witness ==
    /\ last.op = "save"
    /\ last.raised = "ValueError"
    /\ last.handler = "BinaryFileHandler"
    /\ last.data.t = "str"
    /\ files.bin.exists
    /\ files.bin.content # <<>>

-----------------------------------------------------------------------------
(* MovieApp._convert_movies_dict_string_values_to_numbers, as the list,     *)
(* statistics, sort and filter commands apply it to list_movies()           *)

DigitChars == {"0", "1", "2", "3", "4", "5", "6", "7", "8", "9"}

\* the separator of a range of years, one character of the text
RangeDash == "ndash"

\* str.isdigit(): not empty, digits only
IsDigit(s) == s # <<>> /\ \A i \in 1..Len(s) : s[i] \in DigitChars

\* s.split(sep)[0]: the text before the first separator
RECURSIVE SplitFirst(_, _)
SplitFirst(s, sep) ==
    IF s = <<>> \/ Head(s) = sep THEN <<>> ELSE <<Head(s)>> \o SplitFirst(Tail(s), sep)

\* s.replace(old, "", 1): the text without its first old
RECURSIVE ReplaceFirst(_, _)
ReplaceFirst(s, old) ==
    IF s = <<>> THEN <<>>
    ELSE IF Head(s) = old THEN Tail(s)
    ELSE <<Head(s)>> \o ReplaceFirst(Tail(s), old)

\* digits without leading zeros, "0" for none left
RECURSIVE DropZeros(_)
DropZeros(digits) ==
    IF digits = <<>> THEN <<"0">>
    ELSE IF Head(digits) = "0" THEN DropZeros(Tail(digits))
    ELSE digits

\* digits without trailing zeros, "0" for none left
RECURSIVE DropTrailingZeros(_)
DropTrailingZeros(digits) ==
    IF digits = <<>> THEN <<"0">>
    ELSE IF digits[Len(digits)] = "0" THEN DropTrailingZeros(SubSeq(digits, 1, Len(digits) - 1))
    ELSE digits

\* int(text) for a text without sign: the ValueError, or the integer
IntOf(text) ==
    IF IsDigit(Strip(text)) THEN [raised |-> "none", value |-> PyInt(DropZeros(Strip(text)))]
    ELSE [raised |-> "ValueError", value |-> PyNone]

\* float(text) for a text of digits and one dot
FloatOf(text) ==
    PyFloat(DropZeros(SplitFirst(text, ".")) \o <<".">> \o
            DropTrailingZeros(SubSeq(text, Len(SplitFirst(text, ".")) + 2, Len(text))))

\* int(year.split(dash)[0]) if year.isdigit() or dash in year else 0
ConvertYear(year) ==
    IF year.t # "str" THEN [raised |-> "AttributeError", value |-> PyNone]
    ELSE IF IsDigit(year.v) \/ \E i \in 1..Len(year.v) : year.v[i] = RangeDash
         THEN IntOf(SplitFirst(year.v, RangeDash))
    ELSE [raised |-> "none", value |-> PyInt(<<"0">>)]

\* float(rating) if rating.replace(".", "", 1).isdigit() else 0.0
ConvertRating(rating) ==
    IF rating.t # "str" THEN [raised |-> "AttributeError", value |-> PyNone]
    ELSE IF IsDigit(ReplaceFirst(rating.v, "."))
         THEN [raised |-> "none", value |-> FloatOf(rating.v)]
    ELSE [raised |-> "none", value |-> PyFloat(<<"0", ".", "0">>)]

\* the loop over the movies: the first exception ends it
RECURSIVE ConvertMovies(_)
ConvertMovies(movies) ==
    IF movies = <<>> THEN [raised |-> "none", movies |-> <<>>]
    ELSE LET movie == Head(movies)
             year == ConvertYear(movie["year"])
             rating == ConvertRating(movie["rating"])
             rest == ConvertMovies(Tail(movies))
         IN IF year.raised # "none" THEN [raised |-> year.raised, movies |-> <<>>]
            ELSE IF rating.raised # "none" THEN [raised |-> rating.raised, movies |-> <<>>]
            ELSE IF rest.raised # "none" THEN rest
            ELSE [raised |-> "none",
                  movies |-> <<[k \in DOMAIN movie \cup {"media_type"} |->
                                  CASE k = "year" -> year.value
                                    [] k = "rating" -> rating.value
                                    [] k \notin DOMAIN movie -> Movie
                                    [] OTHER -> movie[k]]>> \o rest.movies]

\* the years and the ratings of the entries stored
StoredYears ==
    {PyStr(<<"2", "1">>), PyStr(<<"0", "7">>), PyStr(<<"1", "0", RangeDash, "1", "5">>),
     PyStr(<<"1", "0", RangeDash>>), PyStr(<<RangeDash, "1", "5">>),
     PyStr(<<"N", "/", "A">>), PyStr(<<"1", "0", "-", "1", "5">>),
     PyInt(<<"1", "9", "9", "9">>)}

StoredRatings ==
    {PyStr(<<"8", ".", "0">>), PyStr(<<"1", "0">>), PyStr(<<".", "5">>), PyStr(<<"N", "/", "A">>),
     PyStr(<<".">>), PyStr(<<"1", ".", "2", ".", "3">>), PyStr(<<"1", "1", ".", "5">>),
     PyFloat(<<"9", ".", "9">>)}

\* a catalog of one or two entries, as add_movie of the backend wrote it
ConvertInit ==
    /\ \E b \in {"json", "csv"}, y \in StoredYears, r \in StoredRatings, n \in 1..2 :
          LET a == [ProviderArgs(TitleUp, <<>>) EXCEPT !.year = y, !.rating = r]
              one == [json |-> JsonAddMovie(NoFile, a).file, csv |-> CsvAddMovie(NoCsvFile, a).file]
              two == [json |-> JsonAddMovie(one.json, ProviderArgs(TitleIt, <<>>)).file,
                      csv |-> CsvAddMovie(one.csv, ProviderArgs(TitleIt, <<>>)).file]
              o == IF n = 1 THEN one ELSE two
          IN /\ jsonFile = IF b = "json" THEN o.json ELSE NoFile
             /\ csvFile = IF b = "csv" THEN o.csv ELSE NoCsvFile
             /\ app = [AppIdle EXCEPT !.backend = b]
    /\ origin = "empty"
    /\ last = [op |-> "none", raised |-> "none", movies |-> <<>>, before |-> <<>>]
    /\ res = ResIdle
    /\ files = NoFiles

\* a command that lists: list_movies(), then the conversion of its result
ConvertListed ==
    /\ app.pc = "menu"
    /\ last.op = "none"
    /\ LET movies == AppListMovies
           converted == ConvertMovies(movies)
       IN last' = [op |-> "convert", raised |-> converted.raised,
                   movies |-> converted.movies, before |-> movies]
    /\ UNCHANGED <<jsonFile, csvFile, files, origin, app, res>>

ConvertNext == ConvertListed

ConvertSpec == ConvertInit /\ [][ConvertNext]_vars

\* the text stands for a number: digits, or digits with one dot
IsYearText(text) == IsDigit(text)
IsRatingText(text) == IsDigit(ReplaceFirst(text, "."))

\* the integer a stored year stands for
YearMeant(year) ==
    IF year.t = "int" THEN year
    ELSE IF IsYearText(year.v) THEN PyInt(DropZeros(year.v))
    ELSE IF IsYearText(SplitFirst(year.v, RangeDash)) /\ year.v # SplitFirst(year.v, RangeDash)
         THEN PyInt(DropZeros(SplitFirst(year.v, RangeDash)))
    ELSE PyInt(<<"0">>)

\* a float text within 0.0 .. 10.0
InRatingRange(text) ==
    LET whole == SplitFirst(text, ".")
        fraction == SubSeq(text, Len(whole) + 2, Len(text))
    IN \/ Len(whole) = 1
       \/ whole = <<"1", "0">> /\ fraction = <<"0">>

\* C22: the conversion of the stored year and rating is total: for every
\* stored entry it yields an integer year (the first year of a range, 0 for a
\* text that cannot be parsed) and a rating within 0 .. 10 (0.0 for a text
\* that cannot be parsed), and it never raises.
C22_ConversionTotal ==
    last.op = "convert" =>
        /\ last.raised = "none"
        /\ Len(last.movies) = Len(last.before)
        /\ \A i \in 1..Len(last.movies) :
              /\ last.movies[i]["year"] = YearMeant(last.before[i]["year"])
              /\ last.movies[i]["rating"].t = "float"
              /\ InRatingRange(last.movies[i]["rating"].v)
              /\ (last.before[i]["rating"].t = "str" /\ ~IsRatingText(last.before[i]["rating"].v)) =>
                    last.movies[i]["rating"] = PyFloat(<<"0", ".", "0">>)

-----------------------------------------------------------------------------
(* MovieApp: the delete, update and search commands.  Each action is one    *)
(* prompt of the command with what the command does on the answer; the      *)
(* selection prompts of get_best_match are answered within the title round. *)

\* the loop of get_valid_numeric_input over the lines typed: "pending" when
\* the lines end before the loop does
RECURSIVE RunSelection(_, _)
RunSelection(lines, max_value) ==
    IF lines = <<>> THEN [kind |-> "pending", value |-> 0]
    ELSE LET selected == GetValidNumericInput(Head(lines), 1, max_value)
         IN IF selected.kind = "again" THEN RunSelection(Tail(lines), max_value)
            ELSE selected

\* the return of get_best_match after a selection prompt: whether the call
\* has returned, and its result
Picked(candidates, selected) ==
    [done |-> selected.kind # "pending",
     result |-> IF selected.kind = "value" THEN PyStr(candidates[selected.value])
                ELSE PyNone]

\* the candidates listed, then get_valid_numeric_input over the lines typed
SelectFrom(candidates, lines) == Picked(candidates, RunSelection(lines, Len(candidates)))

\* lower_options[match] for each close match
CloseCandidates(options, close_matches) ==
    [k \in 1..Len(close_matches) |-> LowerOptionsGet(options, close_matches[k])]

\* the step of get_best_match that decides the call, carried out
ResultOf(step, user_input, options, lines) ==
    CASE step = "exact" ->
           [done |-> lines = <<>>,
            result |-> PyStr(LowerOptionsGet(options, Lower(user_input)))]
      [] step = "substring" -> SelectFrom(SubstringMatches(user_input, options), lines)
      [] step = "close" ->
           SelectFrom(CloseCandidates(options, CloseMatches(user_input, options)), lines)
      [] OTHER -> [done |-> lines = <<>>, result |-> PyNone]

\* get_best_match(user_input, options) with the lines typed at its selection
\* prompt
BestMatch(user_input, options, lines) ==
    ResultOf(StepOf(user_input, options), user_input, options, lines)

\* the movies a command has read, of which the model keeps the titles
TitleTexts(movies) == [i \in 1..Len(movies) |-> [title |-> movies[i]["title"]]]

\* {movie["title"].lower(): movie for movie in movies}[key]
LookupMovie(movies, key) ==
    movies[CHOOSE i \in 1..Len(movies) :
              /\ Lower(movies[i]["title"].v) = key
              /\ \A j \in (i + 1)..Len(movies) : Lower(movies[j]["title"].v) # key]

\* next(movie for movie in movies if movie["title"].lower() == title.lower())
FirstMovie(movies, title) == movies[FirstMatch(movies, PyStr(title))]

\* list(movie_titles.keys()): the lower-cased titles in the order of the dict
AllTitles(movies) == LowerKeys([i \in 1..Len(movies) |-> movies[i]["title"].v])

\* the command at the menu: no dictionary built, nothing asked
CmdIdle ==
    [pc |-> "menu", backend |-> "json", command |-> "none", movies |-> <<>>,
     all_titles |-> <<>>, user_title |-> <<>>, matched |-> PyNone, shown |-> <<>>,
     confirm_response |-> "none", note |-> PyNone, called |-> "none",
     raised |-> "none", out |-> {}]

\* self._storage.delete_movie(title) and self._storage.update_movie(title, note)
AppStorageCall(op, title, note) ==
    IF app.backend = "json"
    THEN LET j == IF op = "delete" THEN JsonDeleteMovie(jsonFile, title)
                  ELSE JsonUpdateMovie(jsonFile, title, note)
         IN /\ jsonFile' = j.file
            /\ csvFile' = csvFile
            /\ last' = [NoOp EXCEPT !.op = op, !.a = DirectArgs(title.v), !.note = note,
                                    !.jsonPrev = jsonFile, !.csvPrev = csvFile,
                                    !.jsonOut = j.out, !.jsonWrote = j.wrote]
    ELSE LET c == IF op = "delete" THEN CsvDeleteMovie(csvFile, title)
                  ELSE CsvUpdateMovie(csvFile, title, note)
         IN /\ csvFile' = c.file
            /\ jsonFile' = jsonFile
            /\ last' = [NoOp EXCEPT !.op = op, !.a = DirectArgs(title.v), !.note = note,
                                    !.jsonPrev = jsonFile, !.csvPrev = csvFile,
                                    !.csvOut = c.out, !.csvWrote = c.wrote]

TitleUps == <<"U", "p", "s">>

\* the catalogs the commands find: the calls of add_movie that wrote them
CommandCatalogs ==
    {<<>>,
     <<NotedArgs(TitleUp, <<>>)>>,
     <<NotedArgs(TitleUp, <<>>), ProviderArgs(TitleIt, <<>>)>>,
     <<ProviderArgs(TitleUps, <<>>), ProviderArgs(TitleUp, <<>>)>>}

RECURSIVE JsonCatalog(_)
JsonCatalog(adds) ==
    IF adds = <<>> THEN NoFile
    ELSE JsonAddMovie(JsonCatalog(SubSeq(adds, 1, Len(adds) - 1)), adds[Len(adds)]).file

RECURSIVE CsvCatalog(_)
CsvCatalog(adds) ==
    IF adds = <<>> THEN NoCsvFile
    ELSE CsvAddMovie(CsvCatalog(SubSeq(adds, 1, Len(adds) - 1)), adds[Len(adds)]).file

\* the lines typed at the title prompt, at the selection prompt of
\* get_best_match and at the note prompt
CommandTitleLines == {<<>>, TitleUpLower, TitleUp, <<"p">>, <<"u", "t">>, <<"x">>}
SelectionRuns == {<<>>, <<<<>>>>, <<<<"1">>>>, <<<<"x">>, <<"2">>>>}
NoteLines == {<<" ">>, <<"u">>}

CommandInit ==
    /\ \E adds \in CommandCatalogs, b \in {"json", "csv"} :
          /\ jsonFile = IF b = "json" THEN JsonCatalog(adds) ELSE NoFile
          /\ csvFile = IF b = "csv" THEN CsvCatalog(adds) ELSE NoCsvFile
          /\ app = [CmdIdle EXCEPT !.backend = b]
    /\ origin = "empty"
    /\ last = NoOp
    /\ res = ResIdle
    /\ files = NoFiles

\* menu items 3, 4 and 7 up to the title prompt: the catalog is read once and
\* the dictionary of lower-cased titles is built from it
CommandStart(command) ==
    /\ app.pc = "menu"
    /\ LET movies == AppListMovies
       IN app' = IF movies = <<>>
                 THEN [CmdIdle EXCEPT !.backend = app.backend]
                 ELSE [CmdIdle EXCEPT !.backend = app.backend, !.command = command,
                                      !.pc = "title", !.movies = TitleTexts(movies),
                                      !.all_titles = AllTitles(movies)]
    /\ UNCHANGED <<jsonFile, csvFile, files, origin, last, res>>

\* user_title in movie_titles: the text typed is a key of the dictionary
InDict(user_title) == \E i \in 1..Len(app.all_titles) : app.all_titles[i] = user_title

\* matched_title: the value of the dictionary (a title in the delete and the
\* update command, a movie in the search command), else get_best_match
Resolved(user_title, lines) ==
    IF InDict(user_title)
    THEN [done |-> lines = <<>>,
          result |-> IF app.command = "search"
                     THEN PyDict(LookupMovie(app.movies, user_title))
                     ELSE LookupMovie(app.movies, user_title)["title"]]
    ELSE BestMatch(user_title, app.all_titles, lines)

\* `if matched_title:` a movie is a dict that is not empty
Found(matched_title) == matched_title.t = "dict" \/ Truthy(matched_title)

\* what the command does with matched_title, up to its next prompt
Branch(round, matched_title) ==
    CASE app.command = "delete" ->
           IF Found(matched_title)
           THEN [round EXCEPT !.matched = matched_title, !.pc = "confirm",
                              !.shown = matched_title.v]
           ELSE [round EXCEPT !.pc = "another"]
      [] app.command = "update" ->
           IF Found(matched_title)
           THEN [round EXCEPT
                   !.matched = matched_title, !.pc = "confirm",
                   !.shown = LookupMovie(app.movies, Lower(matched_title.v))["title"].v]
           ELSE [round EXCEPT !.pc = "title", !.user_title = <<>>]
      [] OTHER ->
           IF ~Found(matched_title)
           THEN [round EXCEPT !.pc = "another", !.out = {"No close matches found."}]
           ELSE IF matched_title.t # "str"
           THEN [round EXCEPT !.matched = matched_title, !.pc = "crashed",
                              !.raised = "AttributeError"]
           ELSE [round EXCEPT
                   !.matched = matched_title, !.pc = "another",
                   !.shown = FirstMovie(app.movies, matched_title.v)["title"].v,
                   !.out = {"displayed"}]

TitleRound(user_title, resolved) ==
    /\ resolved.done
    /\ app' = Branch([app EXCEPT !.user_title = user_title], resolved.result)

\* one answer to the title prompt: the test against the dictionary, else
\* get_best_match with its selection, then the branch of the command
EnterTitle(line, lines) ==
    /\ app.pc = "title"
    /\ IF ~Truthy(GetNonEmptyInput(line))
       THEN /\ lines = <<>>
            /\ app' = [CmdIdle EXCEPT !.backend = app.backend]
       ELSE TitleRound(GetNonEmptyInput(line).v, Resolved(GetNonEmptyInput(line).v, lines))
    /\ UNCHANGED <<jsonFile, csvFile, files, origin, last, res>>

\* "Are you sure you want to delete ...?" and "... add a note to ...?"
Confirm(response) ==
    /\ app.pc = "confirm"
    /\ LET confirm == ConfirmAction(response)
       IN CASE confirm = "yes" /\ app.command = "delete" ->
                 /\ AppStorageCall("delete", app.matched, PyNone)
                 /\ app' = [app EXCEPT
                              !.confirm_response = response, !.called = "delete",
                              !.pc = "another",
                              !.all_titles = SelectSeq(@, LAMBDA t : t # Lower(app.matched.v))]
            [] confirm = "yes" /\ app.command # "delete" ->
                 /\ app' = [app EXCEPT !.confirm_response = response, !.pc = "note"]
                 /\ UNCHANGED <<jsonFile, csvFile, last>>
            [] confirm = "no" ->
                 /\ app' = [app EXCEPT !.confirm_response = response, !.pc = "another"]
                 /\ UNCHANGED <<jsonFile, csvFile, last>>
            [] OTHER ->
                 /\ app' = [app EXCEPT !.confirm_response = response]
                 /\ UNCHANGED <<jsonFile, csvFile, last>>
    /\ UNCHANGED <<files, origin, res>>

\* "Enter your note:", then the call of update_movie
EnterNote(line) ==
    /\ app.pc = "note"
    /\ LET user_input_note == GetNonEmptyInput(line)
       IN /\ AppStorageCall("update", PyStr(app.shown), user_input_note)
          /\ app' = [app EXCEPT
                       !.note = user_input_note, !.called = "update", !.pc = "another",
                       !.out = IF Truthy(user_input_note) THEN {"Added note"}
                               ELSE {"Operation cancelled.", "Added note"}]
    /\ UNCHANGED <<files, origin, res>>

\* "Would you like to delete / update / search for a different title?": the
\* round is over, what it asked and called is no longer kept
Another(response) ==
    /\ app.pc = "another"
    /\ app' = CASE ConfirmAction(response) = "yes" ->
                    [CmdIdle EXCEPT !.backend = app.backend, !.command = app.command,
                                    !.movies = app.movies, !.all_titles = app.all_titles,
                                    !.pc = "title"]
               [] ConfirmAction(response) = "no" -> [CmdIdle EXCEPT !.backend = app.backend]
               [] OTHER ->
                    [CmdIdle EXCEPT !.backend = app.backend, !.command = app.command,
                                    !.movies = app.movies, !.all_titles = app.all_titles,
                                    !.pc = "another"]
    /\ last' = NoOp
    /\ UNCHANGED <<jsonFile, csvFile, files, origin, res>>

CommandNext ==
    \/ \E command \in {"delete", "update", "search"} : CommandStart(command)
    \/ \E line \in CommandTitleLines, lines \in SelectionRuns : EnterTitle(line, lines)
    \/ \E response \in Responses : Confirm(response)
    \/ \E line \in NoteLines : EnterNote(line)
    \/ \E response \in Responses : Another(response)

CommandSpec == CommandInit /\ [][CommandNext]_vars

-----------------------------------------------------------------------------
(* Properties of get_best_match over all of its steps *)

\* C27: for every input, every sequence of known titles and every sequence of
\* responses, the value get_best_match returns is None or an element of the
\* sequence of known titles it was given, in the spelling it has there.
C27_ReturnsKnownTitle ==
    res.pc = "returned" =>
        \/ res.result = PyNone
        \/ /\ res.result.t = "str"
           /\ \E i \in 1..Len(res.options) : res.options[i] = res.result.v

\* the approximate step returned a known title whose spelling is not the
\* lower-cased form that difflib compared
C27_Witness ==
    /\ res.pc = "returned"
    /\ res.step = "close"
    /\ res.result.t = "str"
    /\ res.result.v # Lower(res.result.v)
    /\ \E i \in 1..Len(res.options) : res.options[i] = res.result.v

\* C28: get_best_match reports "No matches found." only when the approximate
\* step produced no candidate; when candidates were presented and the user
\* cancelled the selection with an empty response, it returns no match
\* without that report.
C28_NoMatchesOnlyWithoutCandidates ==
    (res.pc = "returned" /\ "No matches found." \in res.out) =>
        /\ res.step = "none"
        /\ res.candidates = <<>>

-----------------------------------------------------------------------------
(* Properties of the delete, update and search commands *)

\* the title typed in this round equals a title of the dictionary without
\* regard to case
TypedKnownTitle ==
    /\ app.user_title # <<>>
    /\ \E i \in 1..Len(app.all_titles) : app.all_titles[i] = Lower(app.user_title)

\* C23: the delete, search and update commands resolve a title in the same
\* way: an input that equals a stored title case-insensitively (an input in
\* lower case that equals the lower-cased title included) resolves to the
\* title of that entry, and the command goes on with it, to its confirmation
\* or to the display, without raising.
C23_ResolvesTheSameWay ==
    TypedKnownTitle =>
        /\ app.raised = "none"
        /\ app.pc \in {"confirm", "note", "another"}
        /\ app.matched.t = "str"
        /\ Lower(app.matched.v) = Lower(app.user_title)
        /\ Lower(app.shown) = Lower(app.user_title)

\* C26: in the delete command storage.delete_movie(x) is called only after
\* a positive confirmation for that very title x in the same round; an empty,
\* a negative and an invalid response to the confirmation, and a resolution
\* that was cancelled or found nothing, lead to no call and leave the catalog
\* as it was.  The same holds for update_movie in the update command.
C26_CallOnlyAfterConfirmation ==
    [][/\ app'.called = "none" => (jsonFile' = jsonFile /\ csvFile' = csvFile)
       /\ app'.called # "none" =>
             /\ app'.called = app.command
             /\ app'.confirm_response = "positive"
             /\ app'.shown # <<>>
             /\ last'.op = app'.called
             /\ last'.a.title.v = app'.shown]_vars

\* delete_movie called, after a positive confirmation, with a title that was
\* picked at the selection prompt, and the entry is gone
C26_Witness ==
    /\ app.called = "delete"
    /\ app.confirm_response = "positive"
    /\ app.user_title # app.shown
    /\ Lower(app.user_title) # Lower(app.shown)
    /\ last.a.title.v = app.shown
    /\ Len(AppListMovies) < Len(app.movies)

\* C29: in the update command, when the user confirms and then gives an empty
\* response at the note prompt (reported as "Operation cancelled."), no update
\* is written and the stored catalog, the note of the entry included, is as it
\* was before the response.
C29_EmptyNoteWritesNothing ==
    (app.command = "update" /\ app.confirm_response = "positive"
        /\ "Operation cancelled." \in app.out) =>
        /\ app.called = "none"
        /\ ~last.jsonWrote /\ ~last.csvWrote
        /\ last.op = "none" \/ (jsonFile = last.jsonPrev /\ csvFile = last.csvPrev)

====
